---- MODULE Spec2Model ----
(***************************************************************************)
(* Model of the Airbyte base-python entrypoint (AirbyteEntrypoint.start)   *)
(* and of the stream layer exercised by the source-amazon-ads unit tests.  *)
(*                                                                         *)
(* Spec        : one run of AirbyteEntrypoint.start over an arbitrary      *)
(*               argument vector and an arbitrary connector (every         *)
(*               collaborator call may return or raise, Source.read may    *)
(*               yield any message sequence).                              *)
(* SpecStreams : the stream layer (upstream profiles stream, paginated     *)
(*               dependent streams over a shared context), driven either   *)
(*               as the unit tests drive it (read_records calls) or by a   *)
(*               read run of the entrypoint.                               *)
(***************************************************************************)
EXTENDS Naturals, Integers, Sequences, FiniteSets, TLC

\* ------------------------------------------------------------------ bounds

\* Longest message sequence a connector's Source.read yields in one run.
MaxMessages == 3

\* Most profiles the profiles endpoint returns.
MaxProfiles == 4

\* Most campaigns the campaigns endpoint holds.
MaxCampaigns == 4

\* Largest PAGE_SIZE tried (page sizes run from 1).
MaxPageSize == 5

\* Most read_records calls one unit test makes on the streams of a Source.
MaxReads == 3

\* ------------------------------------------------------- protocol values

\* airbyte_protocol.Type, as used at entrypoint.py:91,116,121 and by Source.read.
Types == {"SPEC", "CONNECTION_STATUS", "CATALOG", "RECORD", "STATE", "LOG"}

\* The optional payload fields of AirbyteMessage (keyword arguments at
\* entrypoint.py:91,116,121).
PayloadFields == {"spec", "connectionStatus", "catalog", "record", "state", "log"}

\* The payload field that belongs to a type tag.
PayloadOf(t) ==
    CASE t = "SPEC" -> "spec"
      [] t = "CONNECTION_STATUS" -> "connectionStatus"
      [] t = "CATALOG" -> "catalog"
      [] t = "RECORD" -> "record"
      [] t = "STATE" -> "state"
      [] t = "LOG" -> "log"

\* A payload field the constructor was not given.
Unset == <<>>

\* AirbyteMessage(type=t, <field>=value): every other payload field stays unset.
AirbyteMessage(t, field, value) ==
    [k \in {"type"} \cup PayloadFields |->
        IF k = "type" THEN t ELSE IF k = field THEN value ELSE Unset]

\* message.json(exclude_unset=True): the type tag and the populated fields only.
Json(m) ==
    [k \in {"type"} \cup {f \in PayloadFields : m[f] # Unset} |-> m[k]]

\* airbyte_protocol.Status
Status == {"SUCCEEDED", "FAILED"}

\* What a connector's Source.read may yield: the entrypoint takes any
\* AirbyteMessage object, so besides well-formed RECORD, STATE and LOG messages
\* there are objects whose populated field does not match the tag, or that
\* populate none.
GeneratedMessages ==
    { AirbyteMessage("RECORD", "record", <<"r1">>),
      AirbyteMessage("RECORD", "record", <<"r2">>),
      AirbyteMessage("STATE", "state", <<"s1">>),
      AirbyteMessage("LOG", "log", <<"l1">>),
      AirbyteMessage("RECORD", "state", <<"s1">>),
      AirbyteMessage("RECORD", "none", <<"x">>) }

\* --------------------------------------------------------- argument vector

Commands == {"spec", "check", "discover", "read"}

\* An argument vector, by what the parser sees in it: the first positional
\* ("none" when there is none, "bogus" for a word that names no subparser), the
\* named flags given with a value, and where -h/--help stands ("main": before
\* the subcommand, "sub": right after it).
Flags == {"--config", "--catalog", "--state"}

ArgVectors ==
    { a \in [command : Commands \cup {"none", "bogus"},
             flags : SUBSET Flags,
             help : {"no", "main", "sub"}] :
        a.help = "sub" => a.command # "none" }

\* The arguments each subparser declares (entrypoint.py:55-77).
AllowedFlags(cmd) ==
    CASE cmd = "spec" -> {}
      [] cmd = "check" -> {"--config"}
      [] cmd = "discover" -> {"--config"}
      [] cmd = "read" -> {"--config", "--catalog", "--state"}

\* Those declared required=True.
RequiredFlags(cmd) ==
    CASE cmd = "spec" -> {}
      [] cmd = "check" -> {"--config"}
      [] cmd = "discover" -> {"--config"}
      [] cmd = "read" -> {"--config", "--catalog"}

\* A parser whose named arguments were declared without required=True.
ParseResultNothingRequired(a) ==
    IF a.help = "main" THEN "help"
    ELSE IF a.command = "none" THEN (IF a.flags = {} THEN "ok" ELSE "error")
    ELSE IF a.command \notin Commands THEN "error"
    ELSE IF a.help = "sub" THEN "help"
    ELSE IF a.flags \subseteq AllowedFlags(a.command) THEN "ok"
    ELSE "error"

\* A parser that takes any word as a subcommand.
ParseResultAcceptsAnyCommand(a) ==
    IF a.help = "main" THEN "help"
    ELSE IF a.command = "none" THEN (IF a.flags = {} THEN "ok" ELSE "error")
    ELSE IF a.command \notin Commands THEN "ok"
    ELSE IF a.help = "sub" THEN "help"
    ELSE IF a.flags \subseteq AllowedFlags(a.command)
            /\ RequiredFlags(a.command) \subseteq a.flags THEN "ok"
    ELSE "error"

\* main_parser.parse_args(args): "help" (help printed, SystemExit(0)), "error"
\* (usage error, SystemExit(2)) or "ok" (a namespace is returned).  The main
\* parser and every subparser keep argparse's default add_help=True; the
\* subparsers action is not required, so an empty vector parses with
\* command=None.
ParseResult(a) ==
    IF a.help = "main" THEN "help"
    ELSE IF a.command = "none" THEN (IF a.flags = {} THEN "ok" ELSE "error")
    ELSE IF a.command \notin Commands THEN "error"
    ELSE IF a.help = "sub" THEN "help"
    ELSE IF a.flags \subseteq AllowedFlags(a.command)
            /\ RequiredFlags(a.command) \subseteq a.flags THEN "ok"
    ELSE "error"

None == "None"

\* The value of a flag in the namespace: its path, or None when not given.
FlagValue(a, flag) == IF flag \in a.flags THEN "path:" \o flag ELSE None

\* The namespace parse_args returns.
Namespace(a) ==
    [command |-> IF a.command = "none" THEN None ELSE a.command,
     config |-> FlagValue(a, "--config"),
     catalog |-> FlagValue(a, "--catalog"),
     state |-> FlagValue(a, "--state")]

\* ------------------------------------------------------------------ state

VARIABLES
    argv,        \* the argument vector given to start
    pc,          \* the position of start
    parsed_args, \* <<namespace>> once parse_args returned
    temp_dir,    \* "absent" | "exists" | "removed": the TemporaryDirectory
    rendered,    \* whether write_config has written config.json in temp_dir
    raw_config,  \* <<value>> once read_config returned
    rendered_config, \* <<value>> once transform_config returned
    config_container, \* <<ConfigContainer>> once constructed
    calls,       \* the collaborator operations invoked, in order
    call_args,   \* the arguments of each of those calls (the logger left out)
    out,         \* the lines printed on the output channel, in order
    logged,      \* the logger calls, in order
    generator,   \* "none" | "active" | "exhausted" | "raised": Source.read's sequence
    yielded,     \* the messages the sequence has yielded, in order
    message,     \* <<m>> while the loop holds a pulled message not yet printed
    check_result, \* <<status>> once Source.check returned
    outcome,     \* "running" | "SystemExit0" | "SystemExit2" | "Exception"
    raised_in,   \* for an Exception: the call that raised it ("start": start itself)
    \* the stream layer
    harness,     \* "connector": any connector; "read": the streams behind a read
                 \* run; "unit_test": the streams driven by read_records calls
    profiles_response, \* the account type of each profile the endpoint returns
    campaigns,   \* the number of campaigns the campaigns endpoint holds
    PAGE_SIZE,   \* PaginationStream.PAGE_SIZE
    catalog,     \* the streams the catalog selects
    plan,        \* the selected streams Source.read has still to read
    ctx_profiles, \* the shared context's cached profiles
    ctx_loaded,  \* whether the upstream stream has been read into the context
    upstream_reads, \* requests made to the profiles endpoint
    g_stream,    \* the stream whose read_records sequence is being consumed
    g_status,    \* "idle" | "created" | "running" | "finished"
    g_parents,   \* the cached upstream records a dependent stream iterates over
    g_parent,    \* index in g_parents of the parent being extracted
    g_offset,    \* startIndex of the next page request
    g_more,      \* whether the current parent needs another page request
    g_page,      \* records received and not yet yielded
    records,     \* the records the current read_records call has yielded
    requests,    \* the page requests the current read_records call has made
    reads_started, \* read_records calls made so far
    completed    \* the streams with a read_records call consumed to its end

vars == <<argv, pc, parsed_args, temp_dir, rendered, raw_config, rendered_config,
          config_container, calls, call_args, out, logged, generator, yielded, message,
          check_result, outcome, raised_in,
          harness, profiles_response, campaigns, PAGE_SIZE, catalog, plan,
          ctx_profiles, ctx_loaded, upstream_reads, g_stream, g_status, g_parents,
          g_parent, g_offset, g_more, g_page, records, requests, reads_started,
          completed>>

entrypoint_vars == <<argv, pc, parsed_args, temp_dir, rendered, raw_config,
                     rendered_config, config_container, calls, call_args, out, logged,
                     generator, yielded, message, check_result, outcome, raised_in>>

\* What a unit test or a connector run fixes before the streams are read.
setup_vars == <<harness, profiles_response, campaigns, PAGE_SIZE, catalog>>

ctx_vars == <<ctx_profiles, ctx_loaded, upstream_reads>>

g_vars == <<g_stream, g_status, g_parents, g_parent, g_offset, g_more, g_page,
            records, requests, reads_started, completed>>

stream_vars == <<setup_vars, plan, ctx_vars, g_vars>>

config_vars == <<raw_config, rendered_config, config_container, rendered>>
read_vars == <<generator, yielded, message>>

cmd == parsed_args[1].command

\* The exit status the process ends with: sys.exit's argument, or 1 for an
\* exception that leaves main() uncaught.
ExitCode(o) ==
    CASE o = "SystemExit0" -> 0
      [] o = "SystemExit2" -> 2
      [] o = "Exception" -> 1

\* The locals of start before its first statement.
InitEntrypoint ==
    /\ parsed_args = <<>>
    /\ temp_dir = "absent"
    /\ rendered = FALSE
    /\ raw_config = <<>>
    /\ rendered_config = <<>>
    /\ config_container = <<>>
    /\ calls = <<>>
    /\ call_args = <<>>
    /\ out = <<>>
    /\ logged = <<>>
    /\ generator = "none"
    /\ yielded = <<>>
    /\ message = <<>>
    /\ check_result = <<>>
    /\ outcome = "running"
    /\ raised_in = None

\* A Source whose streams have not been read.
InitStreamLayer ==
    /\ ctx_profiles = <<>>
    /\ ctx_loaded = FALSE
    /\ upstream_reads = 0
    /\ g_stream = None
    /\ g_status = "idle"
    /\ g_parents = <<>>
    /\ g_parent = 0
    /\ g_offset = 0
    /\ g_more = FALSE
    /\ g_page = <<>>
    /\ records = <<>>
    /\ requests = <<>>
    /\ reads_started = 0
    /\ completed = {}

Init ==
    /\ argv \in ArgVectors
    /\ pc = "parse_args"
    /\ InitEntrypoint
    /\ InitStreamLayer
    /\ harness = "connector"
    /\ profiles_response = <<>>
    /\ campaigns = 0
    /\ PAGE_SIZE = 1
    /\ catalog = {}
    /\ plan = <<>>

\* ---------------------------------------------------------------- actions

\* An exception raised inside the with block by the call `who`: it unwinds
\* through TemporaryDirectory.__exit__ before it leaves start.
Raise(who) == pc' = "with_exit" /\ outcome' = "Exception" /\ raised_in' = who

\* sys.exit(0) inside the with block (entrypoint.py:93,118,122,127): SystemExit
\* unwinds the same way.
SysExit0 == pc' = "with_exit" /\ outcome' = "SystemExit0" /\ UNCHANGED raised_in

\* The statement completed; start goes on at position p.
Goto(p) == pc' = p /\ UNCHANGED <<outcome, raised_in>>

\* entrypoint.py:50-80: build the parsers, parse the argument vector.
ParseArgs ==
    /\ UNCHANGED stream_vars
    /\ pc = "parse_args"
    /\ LET r == ParseResult(argv) IN
        CASE r = "ok" ->
                /\ parsed_args' = <<Namespace(argv)>>
                /\ Goto("command")
          [] r = "help" ->
                /\ pc' = "done"
                /\ outcome' = "SystemExit0"
                /\ UNCHANGED <<parsed_args, raised_in>>
          [] r = "error" ->
                /\ pc' = "done"
                /\ outcome' = "SystemExit2"
                /\ UNCHANGED <<parsed_args, raised_in>>
    /\ UNCHANGED <<argv, temp_dir, calls, call_args, out, logged, check_result>>
    /\ UNCHANGED config_vars
    /\ UNCHANGED read_vars

\* entrypoint.py:83-85: no command passed.
CheckCommand ==
    /\ UNCHANGED stream_vars
    /\ pc = "command"
    /\ IF cmd = None
         THEN pc' = "done" /\ outcome' = "Exception" /\ raised_in' = "start"
         ELSE Goto("with_enter")
    /\ UNCHANGED <<argv, parsed_args, temp_dir, calls, call_args, out, logged, check_result>>
    /\ UNCHANGED config_vars
    /\ UNCHANGED read_vars

\* entrypoint.py:89: with tempfile.TemporaryDirectory() as temp_dir.
EnterTempDir ==
    /\ UNCHANGED stream_vars
    /\ pc = "with_enter"
    /\ temp_dir' = "exists"
    /\ Goto("spec")
    /\ UNCHANGED <<argv, parsed_args, calls, call_args, out, logged, check_result>>
    /\ UNCHANGED config_vars
    /\ UNCHANGED read_vars

\* A spec branch without its sys.exit(0): start goes on to load a configuration.
SpecCommandFallsThrough ==
    /\ UNCHANGED stream_vars
    /\ pc = "spec"
    /\ IF cmd = "spec"
         THEN /\ calls' = Append(calls, "spec")
              /\ call_args' = Append(call_args, <<>>)
              /\ out' = Append(out, Json(AirbyteMessage("SPEC", "spec", <<"specification">>)))
              /\ Goto("read_config")
         ELSE /\ Goto("read_config")
              /\ UNCHANGED <<calls, call_args, out>>
    /\ UNCHANGED <<argv, parsed_args, temp_dir, logged, check_result>>
    /\ UNCHANGED config_vars
    /\ UNCHANGED read_vars

\* entrypoint.py:90-93: the spec command prints one SPEC message and exits;
\* any other command goes on to load its configuration.
SpecCommand ==
    /\ UNCHANGED stream_vars
    /\ pc = "spec"
    /\ IF cmd = "spec"
         THEN /\ calls' = Append(calls, "spec")
              /\ call_args' = Append(call_args, <<>>)
              /\ \/ /\ out' = Append(out, Json(AirbyteMessage("SPEC", "spec", <<"specification">>)))
                    /\ SysExit0
                 \/ /\ Raise("spec")
                    /\ UNCHANGED out
         ELSE /\ Goto("read_config")
              /\ UNCHANGED <<calls, call_args, out>>
    /\ UNCHANGED <<argv, parsed_args, temp_dir, logged, check_result>>
    /\ UNCHANGED config_vars
    /\ UNCHANGED read_vars

\* entrypoint.py:95: raw_config = self.source.read_config(parsed_args.config).
ReadConfig ==
    /\ UNCHANGED stream_vars
    /\ pc = "read_config"
    /\ calls' = Append(calls, "read_config")
    /\ call_args' = Append(call_args, <<parsed_args[1].config>>)
    /\ \/ /\ raw_config' = <<[read_from |-> parsed_args[1].config]>>
          /\ Goto("transform_config")
       \/ /\ Raise("read_config")
          /\ UNCHANGED raw_config
    /\ UNCHANGED <<argv, parsed_args, temp_dir, out, logged, check_result,
                   rendered_config, config_container, rendered>>
    /\ UNCHANGED read_vars

\* os.path.join(temp_dir, "config.json") (entrypoint.py:97)
RenderedConfigPath == "temp_dir/config.json"

\* entrypoint.py:97-98: rendered_config = self.source.transform_config(raw_config).
TransformConfig ==
    /\ UNCHANGED stream_vars
    /\ pc = "transform_config"
    /\ calls' = Append(calls, "transform_config")
    /\ call_args' = Append(call_args, <<raw_config[1]>>)
    /\ \/ /\ rendered_config' = <<[transformed |-> raw_config[1]]>>
          /\ Goto("write_config")
       \/ /\ Raise("transform_config")
          /\ UNCHANGED rendered_config
    /\ UNCHANGED <<argv, parsed_args, temp_dir, out, logged, check_result,
                   raw_config, config_container, rendered>>
    /\ UNCHANGED read_vars

\* A write_config call wrapped in an except clause that notes the failure and
\* goes on.
WriteConfigSwallows ==
    /\ UNCHANGED stream_vars
    /\ pc = "write_config"
    /\ calls' = Append(calls, "write_config")
    /\ call_args' = Append(call_args, <<rendered_config[1], RenderedConfigPath>>)
    /\ \/ /\ rendered' = TRUE
          /\ Goto("config_container")
       \/ /\ pc' = "config_container"
          /\ raised_in' = "write_config"
          /\ UNCHANGED <<outcome, rendered>>
    /\ UNCHANGED <<argv, parsed_args, temp_dir, out, logged, check_result,
                   raw_config, rendered_config, config_container>>
    /\ UNCHANGED read_vars

\* entrypoint.py:99: self.source.write_config(rendered_config, rendered_config_path).
WriteConfig ==
    /\ UNCHANGED stream_vars
    /\ pc = "write_config"
    /\ calls' = Append(calls, "write_config")
    /\ call_args' = Append(call_args, <<rendered_config[1], RenderedConfigPath>>)
    /\ \/ /\ rendered' = TRUE
          /\ Goto("config_container")
       \/ /\ Raise("write_config")
          /\ UNCHANGED rendered
    /\ UNCHANGED <<argv, parsed_args, temp_dir, out, logged, check_result,
                   raw_config, rendered_config, config_container>>
    /\ UNCHANGED read_vars

\* A container built with the raw and the rendered configuration exchanged.
BuildConfigContainerSwapped ==
    /\ UNCHANGED stream_vars
    /\ pc = "config_container"
    /\ config_container' =
          <<[raw_config |-> rendered_config[1],
             rendered_config |-> raw_config[1],
             raw_config_path |-> parsed_args[1].config,
             rendered_config_path |-> RenderedConfigPath]>>
    /\ Goto("dispatch")
    /\ UNCHANGED <<argv, parsed_args, temp_dir, calls, call_args, out, logged, check_result,
                   raw_config, rendered_config, rendered>>
    /\ UNCHANGED read_vars

\* entrypoint.py:101-106: config_container = ConfigContainer(...).
BuildConfigContainer ==
    /\ UNCHANGED stream_vars
    /\ pc = "config_container"
    /\ config_container' =
          <<[raw_config |-> raw_config[1],
             rendered_config |-> rendered_config[1],
             raw_config_path |-> parsed_args[1].config,
             rendered_config_path |-> RenderedConfigPath]>>
    /\ Goto("dispatch")
    /\ UNCHANGED <<argv, parsed_args, temp_dir, calls, call_args, out, logged, check_result,
                   raw_config, rendered_config, rendered>>
    /\ UNCHANGED read_vars

\* A check branch that reports a FAILED status by raising after printing it,
\* instead of by exit 0.
CheckCommandRunFailureRaises ==
    /\ calls' = Append(calls, "check")
    /\ call_args' = Append(call_args, <<config_container[1]>>)
    /\ \/ \E status \in Status :
            /\ check_result' = <<status>>
            /\ logged' = Append(logged,
                            IF status = "SUCCEEDED" THEN "info:Check succeeded"
                                                    ELSE "error:Check failed")
            /\ out' = Append(out,
                         Json(AirbyteMessage("CONNECTION_STATUS", "connectionStatus", <<status>>)))
            /\ IF status = "SUCCEEDED" THEN SysExit0 ELSE Raise("start")
       \/ /\ Raise("check")
          /\ UNCHANGED <<out, logged, check_result>>
    /\ UNCHANGED read_vars

\* entrypoint.py:108-118: check logs a summary line, prints one
\* CONNECTION_STATUS message and exits 0 whatever the status.
CheckCommandRun ==
    /\ calls' = Append(calls, "check")
    /\ call_args' = Append(call_args, <<config_container[1]>>)
    /\ \/ \E status \in Status :
            /\ check_result' = <<status>>
            /\ logged' = Append(logged,
                            IF status = "SUCCEEDED" THEN "info:Check succeeded"
                                                    ELSE "error:Check failed")
            /\ out' = Append(out,
                         Json(AirbyteMessage("CONNECTION_STATUS", "connectionStatus", <<status>>)))
            /\ SysExit0
       \/ /\ Raise("check")
          /\ UNCHANGED <<out, logged, check_result>>
    /\ UNCHANGED read_vars

\* entrypoint.py:119-122: discover prints one CATALOG message and exits 0.
DiscoverCommandRun ==
    /\ calls' = Append(calls, "discover")
    /\ call_args' = Append(call_args, <<config_container[1]>>)
    /\ \/ /\ out' = Append(out, Json(AirbyteMessage("CATALOG", "catalog", <<"catalog">>)))
          /\ SysExit0
       \/ /\ Raise("discover")
          /\ UNCHANGED out
    /\ UNCHANGED <<logged, check_result>>
    /\ UNCHANGED read_vars

\* entrypoint.py:123-124: generator = self.source.read(...).
ReadCommandStart ==
    /\ calls' = Append(calls, "read")
    /\ call_args' = Append(call_args, <<config_container[1], parsed_args[1].catalog, parsed_args[1].state>>)
    /\ \/ /\ generator' = "active"
          /\ Goto("read_next")
       \/ /\ Raise("read")
          /\ UNCHANGED generator
    /\ UNCHANGED <<out, logged, check_result, yielded, message>>

\* A read branch that only creates the generator inside the with block and
\* iterates it after the block: the directory is gone before the first pull.
DispatchLeavesWithBlock ==
    /\ UNCHANGED stream_vars
    /\ pc = "dispatch"
    /\ CASE cmd = "check" -> CheckCommandRun
         [] cmd = "discover" -> DiscoverCommandRun
         [] cmd = "read" -> ReadCommandStart
         [] OTHER -> /\ Raise("start")
                     /\ UNCHANGED <<calls, call_args, out, logged, check_result>>
                     /\ UNCHANGED read_vars
    /\ temp_dir' = IF cmd = "read" THEN "removed" ELSE temp_dir
    /\ UNCHANGED <<argv, parsed_args>>
    /\ UNCHANGED config_vars

\* entrypoint.py:108-129: the dispatch on cmd once the configuration is loaded.
Dispatch ==
    /\ UNCHANGED stream_vars
    /\ pc = "dispatch"
    /\ CASE cmd = "check" -> CheckCommandRun
         [] cmd = "discover" -> DiscoverCommandRun
         [] cmd = "read" -> ReadCommandStart
         [] OTHER -> /\ Raise("start")
                     /\ UNCHANGED <<calls, call_args, out, logged, check_result>>
                     /\ UNCHANGED read_vars
    /\ UNCHANGED <<argv, parsed_args, temp_dir>>
    /\ UNCHANGED config_vars

\* A loop that catches the connector's exception and reports it as a LOG
\* message before re-raising it.
ReadNextReportsError ==
    /\ UNCHANGED stream_vars
    /\ pc = "read_next"
    /\ \/ \E m \in GeneratedMessages :
            /\ Len(yielded) < MaxMessages
            /\ yielded' = Append(yielded, m)
            /\ message' = <<m>>
            /\ Goto("read_print")
            /\ UNCHANGED <<generator, out>>
       \/ /\ generator' = "exhausted"
          /\ SysExit0
          /\ UNCHANGED <<yielded, message, out>>
       \/ /\ generator' = "raised"
          /\ out' = Append(out, Json(AirbyteMessage("LOG", "log", <<"error">>)))
          /\ Raise("read")
          /\ UNCHANGED <<yielded, message>>
    /\ UNCHANGED <<argv, parsed_args, temp_dir, calls, call_args, logged, check_result>>
    /\ UNCHANGED config_vars

\* A read branch without the sys.exit(0) of line 127: at the end of the
\* sequence the with block is left normally and start returns.
ReadNextReturns ==
    /\ UNCHANGED stream_vars
    /\ pc = "read_next"
    /\ \/ \E m \in GeneratedMessages :
            /\ Len(yielded) < MaxMessages
            /\ yielded' = Append(yielded, m)
            /\ message' = <<m>>
            /\ Goto("read_print")
            /\ UNCHANGED generator
       \/ /\ generator' = "exhausted"
          /\ Goto("with_exit")
          /\ UNCHANGED <<yielded, message>>
       \/ /\ generator' = "raised"
          /\ Raise("read")
          /\ UNCHANGED <<yielded, message>>
    /\ UNCHANGED <<argv, parsed_args, temp_dir, calls, call_args, out, logged, check_result>>
    /\ UNCHANGED config_vars

\* entrypoint.py:125: the for statement pulls the next item of the sequence: a
\* message, the end of the sequence (then sys.exit(0), line 127), or an
\* exception raised by the connector.
ReadNext ==
    /\ UNCHANGED stream_vars
    /\ pc = "read_next"
    /\ \/ \E m \in GeneratedMessages :
            /\ Len(yielded) < MaxMessages
            /\ yielded' = Append(yielded, m)
            /\ message' = <<m>>
            /\ Goto("read_print")
            /\ UNCHANGED generator
       \/ /\ generator' = "exhausted"
          /\ SysExit0
          /\ UNCHANGED <<yielded, message>>
       \/ /\ generator' = "raised"
          /\ Raise("read")
          /\ UNCHANGED <<yielded, message>>
    /\ UNCHANGED <<argv, parsed_args, temp_dir, calls, call_args, out, logged, check_result>>
    /\ UNCHANGED config_vars

\* A loop that puts each new line in front of the earlier ones.
ReadPrintPrepended ==
    /\ UNCHANGED stream_vars
    /\ pc = "read_print"
    /\ out' = <<Json(message[1])>> \o out
    /\ message' = <<>>
    /\ Goto("read_next")
    /\ UNCHANGED <<argv, parsed_args, temp_dir, calls, call_args, logged, check_result,
                   generator, yielded>>
    /\ UNCHANGED config_vars

\* entrypoint.py:126: print(message.json(exclude_unset=True)).
ReadPrint ==
    /\ UNCHANGED stream_vars
    /\ pc = "read_print"
    /\ out' = Append(out, Json(message[1]))
    /\ message' = <<>>
    /\ Goto("read_next")
    /\ UNCHANGED <<argv, parsed_args, temp_dir, calls, call_args, logged, check_result,
                   generator, yielded>>
    /\ UNCHANGED config_vars

\* A cleanup written after the block instead of as its context manager: an
\* exception leaves start without reaching it.
ExitTempDirOnlyOnExit ==
    /\ UNCHANGED stream_vars
    /\ pc = "with_exit"
    /\ temp_dir' = IF outcome = "Exception" THEN temp_dir ELSE "removed"
    /\ rendered' = IF outcome = "Exception" THEN rendered ELSE FALSE
    /\ pc' = "done"
    /\ UNCHANGED <<argv, parsed_args, calls, call_args, out, logged, check_result, outcome,
                   raised_in, raw_config, rendered_config, config_container>>
    /\ UNCHANGED read_vars

\* entrypoint.py:89: TemporaryDirectory.__exit__ removes the directory, with
\* everything in it, whatever leaves the block; the exception or SystemExit
\* then leaves start.
ExitTempDir ==
    /\ UNCHANGED stream_vars
    /\ pc = "with_exit"
    /\ temp_dir' = "removed"
    /\ rendered' = FALSE
    /\ pc' = "done"
    /\ UNCHANGED <<argv, parsed_args, calls, call_args, out, logged, check_result, outcome,
                   raised_in, raw_config, rendered_config, config_container>>
    /\ UNCHANGED read_vars

Next ==
    \/ ParseArgs
    \/ CheckCommand
    \/ EnterTempDir
    \/ SpecCommand
    \/ ReadConfig
    \/ TransformConfig
    \/ WriteConfig
    \/ BuildConfigContainer
    \/ Dispatch
    \/ ReadNext
    \/ ReadPrint
    \/ ExitTempDir

Spec == Init /\ [][Next]_vars

\* ------------------------------------------------------------ stream layer

\* source.streams(test_config), in declared order: streams[0] is the profiles
\* stream, streams[1] the sponsored display campaigns stream
\* (test_streams.py:58-61, 80-83); one more dependent stream stands for the rest.
Streams == <<"profiles", "sponsored_display_campaigns", "sponsored_display_ad_groups">>

StreamNames == {Streams[i] : i \in 1..Len(Streams)}

Upstream == "profiles"

Dependents == StreamNames \ {Upstream}

\* The position of a stream in the declared order.
StreamIndex(name) == CHOOSE i \in 1..Len(Streams) : Streams[i] = name

AccountTypes == {"vendor", "seller"}

\* The profile lists the profiles endpoint may hold (test_streams.py:106-109
\* rewrites every account type to "vendor"; the fixture itself is mixed).
ProfilesResponses ==
    UNION {[1..n -> AccountTypes] : n \in 0..MaxProfiles}

\* The body of GET /v2/profiles: every profile, in order (test_streams.py:41-46).
ProfilesBody ==
    [i \in 1..Len(profiles_response) |-> <<Upstream, i, profiles_response[i]>>]

Min(a, b) == IF a < b THEN a ELSE b

\* A callback whose slice ends one element early.
campaigns_paginated_response_cb_short(start_index, count) ==
    LET stop == Min(campaigns, start_index + count - 1)
        n == IF stop > start_index THEN stop - start_index ELSE 0
    IN  [i \in 1..n |-> start_index + i]

\* A callback that ignores count and returns everything from start_index on.
campaigns_paginated_response_cb_unbounded(start_index, count) ==
    LET n == IF campaigns > start_index THEN campaigns - start_index ELSE 0
    IN  [i \in 1..n |-> start_index + i]

\* campaigns[start_index : start_index + count] (test_streams.py:141-146): the
\* campaigns are numbered 1..campaigns; a slice past the end is cut short.
campaigns_paginated_response_cb(start_index, count) ==
    LET stop == Min(campaigns, start_index + count)
        n == IF stop > start_index THEN stop - start_index ELSE 0
    IN  [i \in 1..n |-> start_index + i]

\* The filter predicate of the sponsored display streams: the profile's account
\* type is "vendor" (test_streams.py:96, 108).
IsVendor(profile) == profile[3] = "vendor"

\* A read_records sequence is being pulled: by a test's list comprehension, or
\* by the entrypoint's for statement through Source.read.
Pulling ==
    \/ harness = "unit_test" /\ pc = "unit_test"
    \/ harness = "read" /\ pc = "read_next" /\ generator = "active"

\* test_streams.py:65,91,94,112,115,154,157: stream.read_records(SyncMode.full_refresh)
\* on any stream of the Source, consumed by a list comprehension.
StartReadRecords(s) ==
    /\ harness = "unit_test"
    /\ pc = "unit_test"
    /\ g_status \in {"idle", "finished"}
    /\ reads_started < MaxReads
    /\ g_stream' = s
    /\ g_status' = "created"
    /\ records' = <<>>
    /\ requests' = <<>>
    /\ reads_started' = reads_started + 1
    /\ UNCHANGED <<g_parents, g_parent, g_offset, g_more, g_page, completed>>
    /\ UNCHANGED <<setup_vars, plan, ctx_vars>>
    /\ UNCHANGED entrypoint_vars

TestReadRecords == \E s \in StreamNames : StartReadRecords(s)

\* Source.read: the streams the catalog selects are read one after the other in
\* declared order; after the last one the sequence ends (entrypoint.py:125,127).
SourceReadNextStream ==
    /\ harness = "read"
    /\ pc = "read_next"
    /\ generator = "active"
    /\ g_status \in {"idle", "finished"}
    /\ IF plan = <<>>
         THEN /\ generator' = "exhausted"
              /\ SysExit0
              /\ UNCHANGED <<plan, g_vars>>
         ELSE /\ g_stream' = Head(plan)
              /\ plan' = Tail(plan)
              /\ g_status' = "created"
              /\ records' = <<>>
              /\ requests' = <<>>
              /\ reads_started' = reads_started + 1
              /\ Goto("read_next")
              /\ UNCHANGED <<generator, g_parents, g_parent, g_offset, g_more,
                             g_page, completed>>
    /\ UNCHANGED <<argv, parsed_args, temp_dir, calls, call_args, out, logged, check_result,
                   yielded, message>>
    /\ UNCHANGED config_vars
    /\ UNCHANGED <<setup_vars, ctx_vars>>

\* An upstream stream that asks the endpoint again on every read_records call.
ReadProfilesEveryTime ==
    /\ Pulling
    /\ g_status = "created"
    /\ g_stream = Upstream
    /\ upstream_reads' = upstream_reads + 1
    /\ ctx_profiles' = ProfilesBody
    /\ ctx_loaded' = TRUE
    /\ g_page' = ProfilesBody
    /\ g_status' = "running"
    /\ UNCHANGED <<g_stream, g_parents, g_parent, g_offset, g_more, records,
                   requests, reads_started, completed>>
    /\ UNCHANGED <<setup_vars, plan>>
    /\ UNCHANGED entrypoint_vars

\* The upstream stream's read_records: the endpoint is asked once per Source and
\* the profiles are kept in the shared context; a later call yields the cached
\* profiles (test_streams.py:65-69).
ReadProfiles ==
    /\ Pulling
    /\ g_status = "created"
    /\ g_stream = Upstream
    /\ IF ctx_loaded
         THEN /\ g_page' = ctx_profiles
              /\ UNCHANGED ctx_vars
         ELSE /\ upstream_reads' = upstream_reads + 1
              /\ ctx_profiles' = ProfilesBody
              /\ ctx_loaded' = TRUE
              /\ g_page' = ProfilesBody
    /\ g_status' = "running"
    /\ UNCHANGED <<g_stream, g_parents, g_parent, g_offset, g_more, records,
                   requests, reads_started, completed>>
    /\ UNCHANGED <<setup_vars, plan>>
    /\ UNCHANGED entrypoint_vars

\* A dependent stream's read_records starts: it takes the cached upstream
\* records that pass its predicate, and makes no upstream request of its own
\* (the tests read the profiles stream first: test_streams.py:91-94).
BeginDependent ==
    /\ Pulling
    /\ g_status = "created"
    /\ g_stream \in Dependents
    /\ g_parents' = SelectSeq(ctx_profiles, IsVendor)
    /\ g_parent' = 1
    /\ g_offset' = 0
    /\ g_more' = TRUE
    /\ g_page' = <<>>
    /\ g_status' = "running"
    /\ UNCHANGED <<g_stream, records, requests, reads_started, completed>>
    /\ UNCHANGED <<setup_vars, plan, ctx_vars>>
    /\ UNCHANGED entrypoint_vars

\* A PaginationStream that takes every response for the last one.
RequestPageStopsOnFullPage ==
    /\ Pulling
    /\ g_status = "running"
    /\ g_stream \in Dependents
    /\ g_page = <<>>
    /\ g_parent <= Len(g_parents)
    /\ g_more
    /\ LET profileId == g_parents[g_parent][2]
           page == campaigns_paginated_response_cb(g_offset, PAGE_SIZE)
       IN  /\ requests' = Append(requests,
                             [profileId |-> profileId, startIndex |-> g_offset,
                              count |-> PAGE_SIZE, returned |-> Len(page)])
           /\ g_page' = [i \in 1..Len(page) |-> <<g_stream, profileId, page[i]>>]
           /\ g_more' = FALSE
           /\ g_offset' = g_offset
    /\ UNCHANGED <<g_stream, g_status, g_parents, g_parent, records, reads_started,
                   completed>>
    /\ UNCHANGED <<setup_vars, plan, ctx_vars>>
    /\ UNCHANGED entrypoint_vars

\* PaginationStream: once the records of the last page are all yielded, the
\* next page is requested with startIndex = offset and count = PAGE_SIZE; a page
\* of fewer than PAGE_SIZE records is the last one of this parent, a page of
\* exactly PAGE_SIZE is followed by another request (test_streams.py:141-146
\* serves the requests).
RequestPage ==
    /\ Pulling
    /\ g_status = "running"
    /\ g_stream \in Dependents
    /\ g_page = <<>>
    /\ g_parent <= Len(g_parents)
    /\ g_more
    /\ LET profileId == g_parents[g_parent][2]
           page == campaigns_paginated_response_cb(g_offset, PAGE_SIZE)
       IN  /\ requests' = Append(requests,
                             [profileId |-> profileId, startIndex |-> g_offset,
                              count |-> PAGE_SIZE, returned |-> Len(page)])
           /\ g_page' = [i \in 1..Len(page) |-> <<g_stream, profileId, page[i]>>]
           /\ g_more' = (Len(page) >= PAGE_SIZE)
           /\ g_offset' = IF Len(page) >= PAGE_SIZE THEN g_offset + PAGE_SIZE
                                                    ELSE g_offset
    /\ UNCHANGED <<g_stream, g_status, g_parents, g_parent, records, reads_started,
                   completed>>
    /\ UNCHANGED <<setup_vars, plan, ctx_vars>>
    /\ UNCHANGED entrypoint_vars

\* read_records yields the next record it holds.  Behind a read run, Source.read
\* wraps it in a RECORD message, which the for statement receives
\* (entrypoint.py:125).
YieldRecord ==
    /\ Pulling
    /\ g_status = "running"
    /\ g_page # <<>>
    /\ records' = Append(records, Head(g_page))
    /\ g_page' = Tail(g_page)
    /\ IF harness = "read"
         THEN LET m == AirbyteMessage("RECORD", "record", Head(g_page)) IN
              /\ yielded' = Append(yielded, m)
              /\ message' = <<m>>
              /\ Goto("read_print")
         ELSE UNCHANGED <<yielded, message, pc, outcome, raised_in>>
    /\ UNCHANGED <<argv, parsed_args, temp_dir, calls, call_args, out, logged, check_result,
                   generator>>
    /\ UNCHANGED config_vars
    /\ UNCHANGED <<g_stream, g_status, g_parents, g_parent, g_offset, g_more,
                   requests, reads_started, completed>>
    /\ UNCHANGED <<setup_vars, plan, ctx_vars>>

\* A dependent stream goes on to its next cached upstream record.
NextParent ==
    /\ Pulling
    /\ g_status = "running"
    /\ g_stream \in Dependents
    /\ g_page = <<>>
    /\ g_parent <= Len(g_parents)
    /\ ~g_more
    /\ g_parent' = g_parent + 1
    /\ g_offset' = 0
    /\ g_more' = TRUE
    /\ UNCHANGED <<g_stream, g_status, g_parents, g_page, records, requests,
                   reads_started, completed>>
    /\ UNCHANGED <<setup_vars, plan, ctx_vars>>
    /\ UNCHANGED entrypoint_vars

\* The read_records sequence ends.
FinishReadRecords ==
    /\ Pulling
    /\ g_status = "running"
    /\ g_page = <<>>
    /\ g_stream \in Dependents => g_parent > Len(g_parents)
    /\ g_status' = "finished"
    /\ completed' = completed \cup {g_stream}
    /\ UNCHANGED <<g_stream, g_parents, g_parent, g_offset, g_more, g_page, records,
                   requests, reads_started>>
    /\ UNCHANGED <<setup_vars, plan, ctx_vars>>
    /\ UNCHANGED entrypoint_vars

\* The argument vectors of a well-formed read run.
ReadVectors ==
    {a \in ArgVectors : a.command = "read" /\ a.help = "no" /\ ParseResult(a) = "ok"}

\* The streams of the catalog, in declared order.
SelectedStreams(c) == SelectSeq(Streams, LAMBDA name : name \in c)

InitStreams ==
    /\ InitEntrypoint
    /\ InitStreamLayer
    /\ profiles_response \in ProfilesResponses
    /\ campaigns \in 0..MaxCampaigns
    /\ PAGE_SIZE \in 1..MaxPageSize
    /\ harness \in {"read", "unit_test"}
    /\ IF harness = "read"
         THEN /\ argv \in ReadVectors
              /\ pc = "parse_args"
              /\ catalog \in SUBSET StreamNames
         ELSE /\ argv = [command |-> "none", flags |-> {}, help |-> "no"]
              /\ pc = "unit_test"
              /\ catalog = {}
    /\ plan = SelectedStreams(catalog)

NextStreams ==
    \/ ParseArgs
    \/ CheckCommand
    \/ EnterTempDir
    \/ SpecCommand
    \/ ReadConfig
    \/ TransformConfig
    \/ WriteConfig
    \/ BuildConfigContainer
    \/ Dispatch
    \/ ReadPrint
    \/ ExitTempDir
    \/ TestReadRecords
    \/ SourceReadNextStream
    \/ ReadProfiles
    \/ BeginDependent
    \/ RequestPage
    \/ YieldRecord
    \/ NextParent
    \/ FinishReadRecords

SpecStreams == InitStreams /\ [][NextStreams]_vars

\* ------------------------------------------------------- shared notions

\* The run has ended: start was left by SystemExit or by an exception.
Done == pc = "done"

\* The run parsed its arguments and dispatches command c.
Runs(c) == parsed_args # <<>> /\ parsed_args[1].command = c

\* The lines of `lines` whose type tag is t.
OfType(lines, t) == SelectSeq(lines, LAMBDA l : l.type = t)

\* The serialisation of each message of a sequence, in order.
JsonAll(ms) == [i \in 1..Len(ms) |-> Json(ms[i])]

\* A printed line has exactly one payload field, the one its type tag names.
OnePayloadMatchingType(line) == DOMAIN line \ {"type"} = {PayloadOf(line.type)}

\* ------------------------------------------------------------------ claims

\* C1: for read, the lines printed are the messages Source.read yielded, one
\* line each and in the order yielded; a message is printed before the next
\* one is pulled (never more than one pulled message is unprinted); and once
\* the sequence is exhausted the run ends with exit code 0, every message
\* printed.
C1_ReadPrintsEachMessageInOrder ==
    Runs("read") =>
        /\ Len(out) <= Len(yielded)
        /\ Len(yielded) - Len(out) <= 1
        /\ Len(yielded) - Len(out) = Len(message)
        /\ out = JsonAll(SubSeq(yielded, 1, Len(out)))
        /\ generator = "exhausted" =>
              /\ outcome = "SystemExit0"
              /\ ExitCode(outcome) = 0
              /\ out = JsonAll(yielded)

C1_Witness ==
    /\ Done
    /\ Runs("read")
    /\ generator = "exhausted"
    /\ Len(out) >= 2
    /\ out[1] # out[2]

\* C2: a check run in which Source.check returned a status (FAILED as much as
\* SUCCEEDED) ends with exit code 0, not with an exception, having printed
\* exactly one CONNECTION_STATUS message, which carries that status.
C2_CheckFailedStillExitsZero ==
    (Done /\ check_result # <<>>) =>
        /\ outcome = "SystemExit0"
        /\ ExitCode(outcome) = 0
        /\ raised_in = None
        /\ OfType(out, "CONNECTION_STATUS") =
              <<[type |-> "CONNECTION_STATUS", connectionStatus |-> check_result]>>

C2_Witness ==
    /\ Done
    /\ Runs("check")
    /\ check_result = <<"FAILED">>
    /\ out = <<[type |-> "CONNECTION_STATUS", connectionStatus |-> <<"FAILED">>]>>

\* C3: a spec run never reads, transforms or writes a configuration (Source.spec
\* is the only collaborator it calls, and --config is not among its arguments),
\* and when Source.spec returns, the run ends with exit code 0 having printed
\* exactly one message, the SPEC message.
C3_SpecEmitsOneMessageWithoutConfig ==
    Runs("spec") =>
        /\ calls \in {<<>>, <<"spec">>}
        /\ raw_config = <<>> /\ rendered_config = <<>> /\ ~rendered
        /\ config_container = <<>>
        /\ parsed_args[1].config = None
        /\ (Done /\ raised_in = None) =>
              /\ outcome = "SystemExit0"
              /\ out = <<[type |-> "SPEC", spec |-> <<"specification">>]>>

C3_Witness ==
    /\ Done
    /\ Runs("spec")
    /\ outcome = "SystemExit0"
    /\ Len(out) = 1

\* The argument vectors C4 is about: no subcommand, an unrecognized
\* subcommand, or a subcommand without one of its required flags.
UsageErrorVector(a) ==
    \/ a.command = "none"
    \/ a.command \notin Commands
    \/ ~(RequiredFlags(a.command) \subseteq a.flags)

\* C4 as stated: every such argument vector ends in the argument parser's
\* usage error (exit status 2), with nothing printed and nothing invoked.
C4_AsStated ==
    (Done /\ UsageErrorVector(argv)) =>
        /\ outcome = "SystemExit2"
        /\ out = <<>>
        /\ calls = <<>>

\* C4, amended: for such an argument vector without -h/--help, nothing is
\* printed, no collaborator is invoked and no temporary directory is made; the
\* run ends in the parser's usage error (exit status 2), except that the empty
\* argument vector parses and start itself raises "No command passed".
C4_UsageErrorsEmitNothing ==
    (Done /\ UsageErrorVector(argv) /\ argv.help = "no") =>
        /\ out = <<>>
        /\ calls = <<>>
        /\ temp_dir = "absent"
        /\ ExitCode(outcome) # 0
        /\ IF argv.command = "none" /\ argv.flags = {}
             THEN outcome = "Exception" /\ raised_in = "start"
             ELSE outcome = "SystemExit2"

C4_Witness ==
    /\ Done
    /\ argv.help = "no"
    /\ argv.command = "read"
    /\ argv.flags = {"--config"}
    /\ outcome = "SystemExit2"

\* C5: once the run has ended, on whatever path, the temporary directory (and
\* the rendered configuration in it) does not exist.
C5_TempDirGoneOnEveryExit ==
    Done => (temp_dir # "exists" /\ ~rendered)

C5_Witness ==
    /\ Done
    /\ generator = "raised"
    /\ Len(out) >= 1
    /\ rendered_config # <<>>
    /\ temp_dir = "removed"

\* C10: every line on the output channel has exactly one payload field, the
\* one that matches its type tag.
C10_EveryLineOnePayloadMatchingType ==
    \A i \in 1..Len(out) : OnePayloadMatchingType(out[i])

\* ---------------------------------------------------------- stream claims

CeilDiv(a, b) == (a + b - 1) \div b

\* The page requests, and the records, of the current read_records call that
\* belong to the parent profile p.
RequestsFor(p) == SelectSeq(requests, LAMBDA r : r.profileId = p)
RecordsFor(p) == SelectSeq(records, LAMBDA r : r[2] = p)

\* The complete child result of parent p in dependent stream d.
ChildRecords(d, p) == [i \in 1..campaigns |-> <<d, p, i>>]

\* A dependent stream's read_records sequence has been consumed to its end.
DependentFinished == g_status = "finished" /\ g_stream \in Dependents

\* C6: a paginated extraction over a dataset of K records with page size P
\* yields exactly the K records, each once and in order, and makes
\* ceil((K+1)/P) requests when P divides K, ceil(K/P) otherwise.
C6_PaginationComplete ==
    DependentFinished =>
        \A j \in 1..Len(g_parents) :
            LET p == g_parents[j][2] IN
            /\ RecordsFor(p) = ChildRecords(g_stream, p)
            /\ Len(RequestsFor(p)) =
                  IF campaigns % PAGE_SIZE = 0
                    THEN CeilDiv(campaigns + 1, PAGE_SIZE)
                    ELSE CeilDiv(campaigns, PAGE_SIZE)

C6_Witness ==
    /\ DependentFinished
    /\ Len(g_parents) >= 1
    /\ campaigns = 4
    /\ PAGE_SIZE = 2
    /\ Len(requests) = 3 * Len(g_parents)
    /\ requests[Len(requests)].returned = 0

\* The upstream records that pass the predicate, once the upstream has been read.
VendorCount ==
    IF ctx_loaded
      THEN Cardinality({i \in 1..Len(profiles_response) : profiles_response[i] = "vendor"})
      ELSE 0

\* C7: a dependent stream yields U x C records, U the upstream records that
\* pass its predicate and C the size of each one's child result; every record
\* belongs to a profile that passes the predicate.
C7_DependentFanOut ==
    DependentFinished =>
        /\ Len(records) = VendorCount * campaigns
        /\ \A i \in 1..Len(records) :
              /\ records[i][2] \in 1..Len(profiles_response)
              /\ profiles_response[records[i][2]] = "vendor"

C7_Witness ==
    /\ DependentFinished
    /\ Len(profiles_response) = 4
    /\ VendorCount = 1
    /\ campaigns = 4
    /\ Len(records) = 4

\* The upstream stream's read_records has run its request step.
UpstreamRead ==
    \/ Upstream \in completed
    \/ g_stream = Upstream /\ g_status \in {"running", "finished"}

RECURSIVE Flatten(_)
\* The concatenation of a sequence of sequences.
Flatten(ss) == IF ss = <<>> THEN <<>> ELSE Head(ss) \o Flatten(Tail(ss))

\* What one stream contributes to a read run over catalog c: the profiles, or
\* the child result of every cached profile that passes the predicate (the
\* context holds profiles only if the profiles stream is selected too).
StreamRecords(name, c) ==
    IF name = Upstream THEN ProfilesBody
    ELSE LET parents == IF Upstream \in c THEN SelectSeq(ProfilesBody, IsVendor)
                                          ELSE <<>>
         IN  Flatten([j \in 1..Len(parents) |-> ChildRecords(name, parents[j][2])])

\* The lines of a complete read run over catalog c.
ExpectedLines(c) ==
    LET sel == SelectedStreams(c)
        recs == Flatten([k \in 1..Len(sel) |-> StreamRecords(sel[k], c)])
    IN  [i \in 1..Len(recs) |-> [type |-> "RECORD", record |-> recs[i]]]

\* C9: in a read run the RECORD lines come grouped by stream, the streams in
\* declared order and each stream's records in the order produced: no record of
\* a later stream precedes a record of an earlier one, and the complete output
\* is the selected streams' record sequences one after the other.
C9_RecordsGroupedInDeclaredOrder ==
    harness = "read" =>
        /\ \A i, j \in 1..Len(out) :
              i < j => StreamIndex(out[i].record[1]) <= StreamIndex(out[j].record[1])
        /\ Len(out) <= Len(ExpectedLines(catalog))
        /\ out = SubSeq(ExpectedLines(catalog), 1, Len(out))
        /\ generator = "exhausted" => out = ExpectedLines(catalog)

C9_Witness ==
    /\ harness = "read"
    /\ Done
    /\ generator = "exhausted"
    /\ catalog = {"profiles", "sponsored_display_campaigns"}
    /\ profiles_response = <<"vendor", "vendor", "vendor", "vendor">>
    /\ campaigns = 4
    /\ PAGE_SIZE = 2
    /\ Len(OfType(out, "RECORD")) = 20
    /\ out[4].record[1] = "profiles"
    /\ out[5].record[1] = "sponsored_display_campaigns"

\* ------------------------------------------------- entrypoint claims, cont.

\* The argument vector parses and names one of the four commands.
WellFormedVector(a) == ParseResult(a) = "ok" /\ a.command \in Commands

\* The calls start makes on its collaborators.
CollaboratorCalls ==
    {"spec", "read_config", "transform_config", "write_config", "check", "discover",
     "read"}

\* C11 as stated: no run with a well-formed argument vector ends with a
\* non-zero exit; a non-zero exit happens only for a usage error.
C11_AsStated ==
    Done =>
        /\ WellFormedVector(argv) => ExitCode(outcome) = 0
        /\ ExitCode(outcome) # 0 => UsageErrorVector(argv)

\* C11, amended: a run of a well-formed argument vector ends with exit code 0
\* exactly when no collaborator call raised; a non-zero exit happens only for a
\* usage error or for an exception raised by a collaborator call, which leaves
\* start uncaught.
C11_ExitZeroUnlessUsageErrorOrException ==
    Done =>
        /\ WellFormedVector(argv) =>
              /\ ExitCode(outcome) = 0 <=> raised_in = None
              /\ ExitCode(outcome) # 0 =>
                    (outcome = "Exception" /\ raised_in \in CollaboratorCalls)
        /\ ExitCode(outcome) # 0 =>
              \/ ParseResult(argv) = "error" /\ outcome = "SystemExit2" /\ calls = <<>>
              \/ /\ ParseResult(argv) = "ok"
                 /\ argv.command = "none"
                 /\ raised_in = "start"
                 /\ calls = <<>>
              \/ WellFormedVector(argv) /\ raised_in \in CollaboratorCalls

C11_Witness ==
    /\ Done
    /\ Runs("discover")
    /\ outcome = "Exception"
    /\ raised_in = "transform_config"
    /\ ExitCode(outcome) = 1

\* C12: when Source.read's sequence raises while producing its k-th message,
\* the output holds the first k-1 messages in order and nothing else is ever
\* printed; the exception leaves start uncaught and the exit code is not 0.
C12_ReadFailureKeepsPrintedPrefix ==
    /\ [](generator = "raised" =>
            /\ out = JsonAll(yielded)
            /\ message = <<>>
            /\ pc \in {"with_exit", "done"}
            /\ outcome = "Exception"
            /\ raised_in = "read"
            /\ ExitCode(outcome) # 0)
    /\ [][(generator = "raised" \/ generator' = "raised") => out' = out]_vars

C12_Witness ==
    /\ Done
    /\ generator = "raised"
    /\ Len(yielded) = 2
    /\ Len(out) = 2
    /\ outcome = "Exception"

\* The commands that need the configuration.
ConfigCommands == {"check", "discover", "read"}

\* The calls that load the configuration.
ConfigCalls == <<"read_config", "transform_config", "write_config">>

\* The first n elements of a sequence.
Prefix(seq, n) == SubSeq(seq, 1, Min(n, Len(seq)))

\* The ConfigContainer of lines 101-106, from the values the three calls gave.
ExpectedContainer ==
    [raw_config |-> raw_config[1],
     rendered_config |-> rendered_config[1],
     raw_config_path |-> parsed_args[1].config,
     rendered_config_path |-> RenderedConfigPath]

\* The arguments the i-th call of a check, discover or read run must receive.
ExpectedArgs(i) ==
    CASE i = 1 -> <<FlagValue(argv, "--config")>>
      [] i = 2 -> <<raw_config[1]>>
      [] i = 3 -> <<rendered_config[1], RenderedConfigPath>>
      [] i = 4 -> IF cmd = "read"
                  THEN <<ExpectedContainer, FlagValue(argv, "--catalog"),
                         FlagValue(argv, "--state")>>
                  ELSE <<ExpectedContainer>>

\* C13: in a check, discover or read run the calls are, once each and in this
\* order, read_config of the --config path, transform_config of the raw
\* configuration, write_config of the rendered configuration to the path inside
\* the temporary directory, and then the one Source operation, which receives
\* the one ConfigContainer built from those four values.
C13_ConfigStepsOnceInOrder ==
    /\ [](\A c \in ConfigCommands : Runs(c) =>
            /\ calls = Prefix(ConfigCalls \o <<c>>, Len(calls))
            /\ Len(call_args) = Len(calls)
            /\ \A i \in 1..Len(calls) : call_args[i] = ExpectedArgs(i)
            /\ config_container # <<>> =>
                  (Len(calls) >= 3 /\ config_container[1] = ExpectedContainer)
            /\ Len(calls) = 4 => config_container # <<>>
            /\ (Done /\ outcome = "SystemExit0") => Len(calls) = 4)
    /\ [][config_container # <<>> => config_container' = config_container]_vars

C13_Witness ==
    /\ Done
    /\ Runs("read")
    /\ outcome = "SystemExit0"
    /\ calls = ConfigCalls \o <<"read">>
    /\ call_args[4][1] = config_container[1]
    /\ config_container[1].raw_config # config_container[1].rendered_config

\* C14: when read_config, transform_config or write_config raises, the
\* exception leaves start uncaught, no message is printed and no Source
\* operation is ever invoked.
C14_ConfigFailureInvokesNothing ==
    /\ [](raised_in \in {ConfigCalls[i] : i \in 1..3} =>
            /\ outcome = "Exception"
            /\ pc \in {"with_exit", "done"}
            /\ out = <<>>
            /\ calls[Len(calls)] = raised_in
            /\ \A i \in 1..Len(calls) : calls[i] \notin Commands
            /\ config_container = <<>>
            /\ generator = "none")
    /\ [][(raised_in \in {ConfigCalls[i] : i \in 1..3}) =>
            (calls' = calls /\ out' = out /\ outcome' = outcome)]_vars

C14_Witness ==
    /\ Done
    /\ Runs("check")
    /\ raised_in = "write_config"
    /\ calls = ConfigCalls
    /\ out = <<>>

\* C17: the temporary directory and the rendered configuration file in it
\* exist from before the Source operation is called until after the last
\* message is printed: the directory is removed only on the way out of the
\* with block, never between two messages, and nothing is printed afterwards.
C17_TempDirOutlivesSourceCall ==
    /\ [](pc \in {"dispatch", "read_next", "read_print"} =>
            (temp_dir = "exists" /\ rendered))
    /\ [][(pc \in {"dispatch", "read_next", "read_print"}) =>
            (temp_dir' = "exists" /\ rendered')]_vars
    /\ [][(temp_dir = "exists" /\ temp_dir' = "removed") =>
            (pc = "with_exit" /\ message = <<>> /\ generator # "active"
                /\ (Runs("read") => out = JsonAll(yielded)))]_vars
    /\ [][temp_dir = "removed" => out' = out]_vars

C17_Witness ==
    /\ pc = "read_print"
    /\ Len(out) = 1
    /\ Len(yielded) = 2
    /\ temp_dir = "exists"
    /\ rendered

\* The Source operations invoked so far.
SourceOperations == SelectSeq(calls, LAMBDA c : c \in Commands)

\* C18: at most one of Source.spec, check, discover and read is invoked, at
\* most once, and it is the one the subcommand names; start never returns
\* normally: a run ends in sys.exit(0), the parser's exit or an exception.
C18_OneSourceOperationNoNormalReturn ==
    /\ Len(SourceOperations) <= 1
    /\ SourceOperations # <<>> => Runs(SourceOperations[1])
    /\ Done => outcome \in {"SystemExit0", "SystemExit2", "Exception"}

C18_Witness ==
    /\ Done
    /\ Runs("discover")
    /\ SourceOperations = <<"discover">>
    /\ outcome = "SystemExit0"

\* C19: the final else branch of the dispatch is never taken: a namespace with
\* a command names one of the four commands, so the only exception start itself
\* raises is the one for no command at all, before anything is loaded.
C19_UnexpectedCommandUnreachable ==
    /\ parsed_args # <<>> => cmd \in Commands \cup {None}
    /\ pc \in {"read_config", "transform_config", "write_config", "config_container",
               "dispatch"} => cmd \in ConfigCommands
    /\ raised_in = "start" =>
          /\ cmd = None
          /\ calls = <<>>
          /\ temp_dir = "absent"
          /\ raw_config = <<>>

C19_Witness ==
    /\ Done
    /\ Runs("read")
    /\ argv.flags = Flags
    /\ outcome = "SystemExit0"
    /\ calls[Len(calls)] = "read"

\* ----------------------------------------------------- stream claims, cont.

\* A dependent stream's read_records sequence is being consumed.
DependentRunning == g_status = "running" /\ g_stream \in Dependents

\* The sum of the `returned` fields of a sequence of requests.
RECURSIVE Returned(_)
Returned(rs) == IF rs = <<>> THEN 0 ELSE Head(rs).returned + Returned(Tail(rs))

\* The step appends a page request.
IssuesRequest == Len(requests') = Len(requests) + 1

\* C15: page requests are strictly sequential with increasing offsets: a
\* request is issued only when every record of the page before has been
\* yielded, no response is pending when it is issued, and its offset is the
\* number of records received so far from the same parent.
C15_PagesStrictlySequential ==
    /\ [](g_stream \in Dependents /\ g_status \in {"running", "finished"} =>
            /\ Len(records) + Len(g_page) = Returned(requests)
            /\ g_page # <<>> =>
                  /\ requests # <<>>
                  /\ Len(g_page) <= requests[Len(requests)].returned
                  /\ \A i \in 1..Len(g_page) :
                        g_page[i][2] = requests[Len(requests)].profileId)
    /\ [][IssuesRequest =>
            LET new == requests'[Len(requests')]
                earlier == RequestsFor(new.profileId)
            IN  /\ DependentRunning
                /\ g_page = <<>>
                /\ Len(records) = Returned(requests)
                /\ new.count = PAGE_SIZE
                /\ new.startIndex = Len(RecordsFor(new.profileId))
                /\ new.startIndex = Returned(earlier)
                /\ \A i \in 1..Len(earlier) : earlier[i].startIndex < new.startIndex
                /\ records' = records]_vars

C15_Witness ==
    /\ DependentRunning
    /\ PAGE_SIZE = 2
    /\ campaigns = 4
    /\ Len(requests) = 2
    /\ requests[1].profileId = requests[2].profileId
    /\ requests[2].startIndex = 2
    /\ Len(records) = 3
    /\ Len(g_page) = 1

\* What one parent costs at most: its requests, its records, and the step to
\* the next parent.
ParentCost == (campaigns \div PAGE_SIZE + 1) + campaigns + 1

\* An upper bound of the steps a running read_records of a dependent stream
\* still takes.
Rank ==
    IF ~DependentRunning THEN 0
    ELSE IF g_parent > Len(g_parents) THEN 1
    ELSE 1 + (Len(g_parents) - g_parent) * ParentCost
           + Len(g_page) + 1
           + (IF g_more THEN ((campaigns - g_offset) \div PAGE_SIZE + 1)
                               + (campaigns - g_offset)
                        ELSE 0)

\* A response of fewer than PAGE_SIZE records is the last one of its parent.
ShortResponseIsLast ==
    \A i \in 1..Len(requests) :
        requests[i].returned < PAGE_SIZE =>
            \A j \in (i + 1)..Len(requests) : requests[j].profileId # requests[i].profileId

\* C16: read_records terminates for every dataset and every page size: every
\* step of it lowers a rank that is a natural number, it is never stuck before
\* its end, the last request of each parent is the first one whose response
\* has fewer than PAGE_SIZE records, and no request follows that response.
C16_PaginationTerminates ==
    /\ [](DependentRunning =>
            /\ Rank \in Nat
            /\ g_offset <= campaigns
            /\ Pulling =>
                  ENABLED (RequestPage \/ YieldRecord \/ NextParent \/ FinishReadRecords))
    /\ [][(DependentRunning /\ g_vars' # g_vars) => Rank' < Rank]_vars
    /\ [](g_stream \in Dependents => ShortResponseIsLast)
    /\ [](DependentFinished =>
            \A k \in 1..Len(g_parents) :
                LET rs == RequestsFor(g_parents[k][2]) IN
                /\ rs # <<>>
                /\ rs[Len(rs)].returned < PAGE_SIZE
                /\ \A i \in 1..(Len(rs) - 1) : rs[i].returned = PAGE_SIZE)
    /\ [][(IssuesRequest /\ requests # <<>>) =>
            LET new == requests'[Len(requests')]
                last == requests[Len(requests)]
            IN  last.returned < PAGE_SIZE => new.profileId # last.profileId]_vars

C16_Witness ==
    /\ DependentFinished
    /\ campaigns = 3
    /\ PAGE_SIZE = 2
    /\ Len(g_parents) = 1
    /\ Len(requests) = 2
    /\ requests[1].returned = 2
    /\ requests[2].returned = 1
    /\ Len(records) = 3

====
